---- MODULE Spec2Model ----
(***************************************************************************)
(* Model of tools/gen-deps-md.py: the dependency-map generator.            *)
(*                                                                         *)
(* The script reads the output of go list -deps -json ./... (a stream of   *)
(* concatenated JSON values), decodes it value by value, builds three      *)
(* per-package dependency maps and prints a Markdown report.               *)
(*                                                                         *)
(* Text is modelled as sequences of one-character strings, offsets are     *)
(* 0-based as in Python.                                                   *)
(***************************************************************************)
EXTENDS Integers, Sequences, FiniteSets, TLC

VARIABLES
    pc,                      \* where the process is: "decode", "build", "render", "print", "done", "raised"
    stdout,                  \* run_go_list: text captured from go list
    parts,                   \* the pieces go list wrote, in order (stdout is their concatenation)
    i,                       \* run_go_list: current offset into stdout
    packages,                \* run_go_list: values decoded so far
    ends,                    \* the offsets j returned by raw_decode, in order
    main_packages,           \* main: packages, bound once run_go_list returns
    n,                       \* main: number of packages the for loop has consumed
    internal_deps_by_pkg,    \* main: defaultdict(set)
    stdlib_deps_by_pkg,      \* main: defaultdict(set)
    third_party_deps_by_pkg, \* main: defaultdict(set)
    out,                     \* main: list of text pieces
    printed,                 \* what the process wrote to its standard output
    err                      \* the exception that ended the process, if any

vars == <<pc, stdout, parts, i, packages, ends, main_packages, n,
          internal_deps_by_pkg, stdlib_deps_by_pkg, third_party_deps_by_pkg,
          out, printed, err>>

(***************************************************************************)
(* Bounds of the model.                                                    *)
(***************************************************************************)
MaxChunks == 3      \* pieces of text in the captured output (specification Spec)
MaxRecs == 2        \* decoded records (specification SpecBuild)
MaxDeps == 2        \* Deps entries over all records (specification SpecBuild)
MaxThird == 90      \* Deps entries of the package of specification SpecCap

(***************************************************************************)
(* Text.                                                                   *)
(***************************************************************************)
MODULE_ == <<"g","i","t","h","u","b",".","c","o","m","/","e","x","a","m","p","l","e","/","k","t","l">>

\* The character U+0060 (grave accent), which a TLA+ string cannot hold.
Backtick == "GRAVE"

\* The characters of the model in code-point order (str comparison order).
AsciiOrder == <<"\t","\n","\f","\r"," ","!","\"","#","$","%","&","'","(",")","*","+",",","-",".","/","0","1","2","3","4","5","6","7","8","9",":",";","<","=",">","?","@","A","B","C","D","E","F","G","H","I","J","K","L","M","N","O","P","Q","R","S","T","U","V","W","X","Y","Z","[","\\","]","^","_",Backtick,"a","b","c","d","e","f","g","h","i","j","k","l","m","n","o","p","q","r","s","t","u","v","w","x","y","z","{","|","}","~">>

Ord(c) == CHOOSE k \in 1..Len(AsciiOrder) : AsciiOrder[k] = c

Digits == {"0","1","2","3","4","5","6","7","8","9"}

\* IsSpace without the line feed.
IsSpace_NoNewline(c) == c \in {" ", "\t", "\r", "\f"}

\* str.isspace() on the characters of the model.
IsSpace(c) == c \in {" ", "\t", "\n", "\r", "\f"}

\* s[idx:idx+1]: the character at a 0-based offset, "" past the end.
At(s, idx) == IF idx >= 0 /\ idx < Len(s) THEN s[idx + 1] ELSE ""

\* s[idx:idx+len(lit)] == lit
HasAt(s, idx, lit) ==
    /\ idx + Len(lit) <= Len(s)
    /\ SubSeq(s, idx + 1, idx + Len(lit)) = lit

\* str.startswith
StartsWith(s, prefix) == HasAt(s, 0, prefix)

RECURSIVE Concat(_)
Concat(ss) == IF ss = <<>> THEN <<>> ELSE Head(ss) \o Concat(Tail(ss))

(***************************************************************************)
(* json.JSONDecoder().raw_decode (CPython 3.11, Lib/json/decoder.py and    *)
(* Lib/json/scanner.py).  Decoded values are records [k, s, items]:        *)
(*   k = "str"  s = the characters                                         *)
(*   k = "num"  s = the matched number text (int, float, NaN, Infinity)    *)
(*   k = "lit"  s = null / true / false                                    *)
(*   k = "arr"  items = the elements                                       *)
(*   k = "obj"  items = key1, value1, key2, value2, ... in input order     *)
(***************************************************************************)
JStr(s) == [k |-> "str", s |-> s, items |-> <<>>]
JNum(s) == [k |-> "num", s |-> s, items |-> <<>>]
JLit(s) == [k |-> "lit", s |-> s, items |-> <<>>]
JArr(items) == [k |-> "arr", s |-> <<>>, items |-> items]
JObj(items) == [k |-> "obj", s |-> <<>>, items |-> items]

NullText == <<"n","u","l","l">>
TrueText == <<"t","r","u","e">>
FalseText == <<"f","a","l","s","e">>
NaNText == <<"N","a","N">>
InfinityText == <<"I","n","f","i","n","i","t","y">>
NegInfinityText == <<"-","I","n","f","i","n","i","t","y">>

Ok(v, end) == [ok |-> TRUE, val |-> v, end |-> end, msg |-> ""]
\* JSONDecodeError(msg, s, pos); a StopIteration(idx) of scan_once always
\* becomes JSONDecodeError("Expecting value", s, idx) in its caller.
Fail(msg, pos) == [ok |-> FALSE, val |-> JLit(NullText), end |-> pos, msg |-> msg]

\* decoder.WHITESPACE: [ \t\n\r]*
JsonWs == {" ", "\t", "\n", "\r"}

RECURSIVE SkipWs(_, _)
SkipWs(s, end) == IF At(s, end) \in JsonWs THEN SkipWs(s, end + 1) ELSE end

RECURSIVE DigitsEnd(_, _)
DigitsEnd(s, end) == IF At(s, end) \in Digits THEN DigitsEnd(s, end + 1) ELSE end

\* scanner.NUMBER_RE: (-?(?:0|[1-9][0-9]*))(\.[0-9]+)?([eE][-+]?[0-9]+)?
\* The end of the match starting at idx, or -1 when there is no match.
NumberEnd(s, idx) ==
    LET a == IF At(s, idx) = "-" THEN idx + 1 ELSE idx
        intEnd == IF At(s, a) = "0" THEN a + 1
                  ELSE IF At(s, a) \in Digits THEN DigitsEnd(s, a)
                  ELSE -1
        fracEnd == IF At(s, intEnd) = "." /\ At(s, intEnd + 1) \in Digits
                   THEN DigitsEnd(s, intEnd + 1) ELSE intEnd
        expAt == IF At(s, fracEnd + 1) \in {"+", "-"} THEN fracEnd + 2 ELSE fracEnd + 1
        expEnd == IF At(s, fracEnd) \in {"e", "E"} /\ At(s, expAt) \in Digits
                  THEN DigitsEnd(s, expAt) ELSE fracEnd
    IN  IF intEnd = -1 THEN -1 ELSE expEnd

\* decoder.BACKSLASH
Unescape(esc) ==
    CASE esc = "b" -> "\\b"
      [] esc = "f" -> "\f"
      [] esc = "n" -> "\n"
      [] esc = "r" -> "\r"
      [] esc = "t" -> "\t"
      [] OTHER -> esc

\* decoder.scanstring(s, end, strict=True); end is the offset after the
\* opening quote.  \uXXXX escapes are outside the alphabet of the model.
RECURSIVE ScanChunk(_, _, _, _)
ScanChunk(s, begin, end, acc) ==
    LET c == At(s, end) IN
    IF c = "" THEN Fail("Unterminated string starting at", begin)
    ELSE IF c = "\"" THEN Ok(JStr(acc), end + 1)
    ELSE IF c = "\\" THEN
        IF At(s, end + 1) = "" THEN Fail("Unterminated string starting at", begin)
        ELSE IF At(s, end + 1) \in {"\"", "\\", "/", "b", "f", "n", "r", "t"}
             THEN ScanChunk(s, begin, end + 2, Append(acc, Unescape(At(s, end + 1))))
             ELSE Fail("Invalid \\escape", end)
    ELSE IF c \in {"\t", "\n", "\f", "\r"} THEN Fail("Invalid control character at", end)
    ELSE ScanChunk(s, begin, end + 1, Append(acc, c))

ScanString(s, end) == ScanChunk(s, end - 1, end, <<>>)

RECURSIVE ScanOnce(_, _)
RECURSIVE ObjPairs(_, _, _)
RECURSIVE ArrItems(_, _, _)

\* decoder.JSONObject; end is the offset after "{".
JSONObject(s, end) ==
    LET e1 == IF At(s, end) # "\"" THEN SkipWs(s, end) ELSE end IN
    IF At(s, e1) = "}" THEN Ok(JObj(<<>>), e1 + 1)
    ELSE IF At(s, e1) # "\""
         THEN Fail("Expecting property name enclosed in double quotes", e1)
         ELSE ObjPairs(s, e1 + 1, <<>>)

\* The while-True loop of JSONObject; end is the offset after the key's
\* opening quote.
ObjPairs(s, end, pairs) ==
    LET key == ScanString(s, end) IN
    IF ~key.ok THEN key ELSE
    LET e2 == IF At(s, key.end) # ":" THEN SkipWs(s, key.end) ELSE key.end IN
    IF At(s, e2) # ":" THEN Fail("Expecting ':' delimiter", e2) ELSE
    LET value == ScanOnce(s, SkipWs(s, e2 + 1)) IN
    IF ~value.ok THEN value ELSE
    LET e6 == SkipWs(s, value.end)
        pairs2 == pairs \o <<key.val, value.val>>
    IN
    IF At(s, e6) = "}" THEN Ok(JObj(pairs2), e6 + 1)
    ELSE IF At(s, e6) # "," THEN Fail("Expecting ',' delimiter", e6) ELSE
    LET e7 == SkipWs(s, e6 + 1) IN
    IF At(s, e7) # "\""
    THEN Fail("Expecting property name enclosed in double quotes", e7)
    ELSE ObjPairs(s, e7 + 1, pairs2)

\* decoder.JSONArray; end is the offset after "[".
JSONArray(s, end) ==
    LET e1 == SkipWs(s, end) IN
    IF At(s, e1) = "]" THEN Ok(JArr(<<>>), e1 + 1) ELSE ArrItems(s, e1, <<>>)

\* The while-True loop of JSONArray.
ArrItems(s, end, values) ==
    LET value == ScanOnce(s, end) IN
    IF ~value.ok THEN value ELSE
    LET e2 == SkipWs(s, value.end)
        values2 == Append(values, value.val)
    IN
    IF At(s, e2) = "]" THEN Ok(JArr(values2), e2 + 1)
    ELSE IF At(s, e2) # "," THEN Fail("Expecting ',' delimiter", e2)
    ELSE ArrItems(s, SkipWs(s, e2 + 1), values2)

\* scanner.py_make_scanner._scan_once
ScanOnce(s, idx) ==
    LET c == At(s, idx)
        m == NumberEnd(s, idx)
    IN
    IF c = "" THEN Fail("Expecting value", idx)
    ELSE IF c = "\"" THEN ScanString(s, idx + 1)
    ELSE IF c = "{" THEN JSONObject(s, idx + 1)
    ELSE IF c = "[" THEN JSONArray(s, idx + 1)
    ELSE IF HasAt(s, idx, NullText) THEN Ok(JLit(NullText), idx + 4)
    ELSE IF HasAt(s, idx, TrueText) THEN Ok(JLit(TrueText), idx + 4)
    ELSE IF HasAt(s, idx, FalseText) THEN Ok(JLit(FalseText), idx + 5)
    ELSE IF m # -1 THEN Ok(JNum(SubSeq(s, idx + 1, m)), m)
    ELSE IF HasAt(s, idx, NaNText) THEN Ok(JNum(NaNText), idx + 3)
    ELSE IF HasAt(s, idx, InfinityText) THEN Ok(JNum(InfinityText), idx + 8)
    ELSE IF HasAt(s, idx, NegInfinityText) THEN Ok(JNum(NegInfinityText), idx + 9)
    ELSE Fail("Expecting value", idx)

\* JSONDecoder.raw_decode(s, idx)
raw_decode(s, idx) == ScanOnce(s, idx)

(***************************************************************************)
(* Python values as run_go_list and main use them.                         *)
(***************************************************************************)
ImportPathKey == <<"I","m","p","o","r","t","P","a","t","h">>
DepsKey == <<"D","e","p","s">>

\* dict.get(key, default) on a decoded object: of pairs with the same key
\* the last one wins (dict construction from the pairs).
Get(pkg, key, default) ==
    LET hits == {k \in 1..(Len(pkg.items) \div 2) : pkg.items[2 * k - 1] = JStr(key)} IN
    IF hits = {} THEN default
    ELSE pkg.items[2 * (CHOOSE k \in hits : \A h \in hits : h <= k)]

\* The number text denotes zero (int 0 or float 0.0, either sign).
IsZeroNum(t) ==
    /\ t \notin {NaNText, InfinityText, NegInfinityText}
    /\ \A k \in 1..Len(t) :
         (\A h \in 1..(k - 1) : t[h] \notin {"e", "E"}) => t[k] \notin (Digits \ {"0"})

\* bool(v)
Truthy(v) ==
    CASE v.k = "lit" -> v.s = TrueText
      [] v.k = "num" -> ~IsZeroNum(v.s)
      [] v.k = "str" -> v.s # <<>>
      [] OTHER -> v.items # <<>>

\* The keys of a dict in insertion order, each once.
RECURSIVE DictKeys(_, _)
DictKeys(items, seen) ==
    IF items = <<>> THEN <<>>
    ELSE IF items[1] \in seen THEN DictKeys(Tail(Tail(items)), seen)
    ELSE <<items[1]>> \o DictKeys(Tail(Tail(items)), seen \cup {items[1]})

\* What `for dep in v` iterates, or ok = FALSE when v is not iterable
\* (TypeError).
Iterate(v) ==
    CASE v.k = "arr" -> [ok |-> TRUE, seq |-> v.items]
      [] v.k = "str" -> [ok |-> TRUE, seq |-> [k \in 1..Len(v.s) |-> JStr(<<v.s[k]>>)]]
      [] v.k = "obj" -> [ok |-> TRUE, seq |-> DictKeys(v.items, {})]
      [] OTHER -> [ok |-> FALSE, seq |-> <<>>]

\* sorted() of a set of strings: ascending by code point, shorter first on
\* a common prefix.
LexLess(a, b) ==
    LET differ == {k \in 1..(IF Len(a) < Len(b) THEN Len(a) ELSE Len(b)) : a[k] # b[k]}
    IN  IF differ = {} THEN Len(a) < Len(b)
        ELSE LET first == CHOOSE k \in differ : \A h \in differ : k <= h
             IN  Ord(a[first]) < Ord(b[first])

RECURSIVE sorted(_)
sorted(S) ==
    IF S = {} THEN <<>>
    ELSE LET m == CHOOSE x \in S : \A y \in S : y = x \/ LexLess(x, y)
         IN  <<m>> \o sorted(S \ {m})

\* str(k) for a non-negative int
RECURSIVE ToDec(_)
ToDec(k) ==
    LET d == <<"0","1","2","3","4","5","6","7","8","9">>[(k % 10) + 1] IN
    IF k < 10 THEN <<d>> ELSE Append(ToDec(k \div 10), d)

(***************************************************************************)
(* main: the loop over the packages (lines 40-55).                         *)
(***************************************************************************)
\* InScope with a test that lets the empty path through
\* (imp_path and not imp_path.startswith(MODULE)).
InScope_EmptyPasses(imp_path) == imp_path = <<>> \/ StartsWith(imp_path, MODULE_)

\* line 42: the record is processed iff this holds
InScope(imp_path) == StartsWith(imp_path, MODULE_)

\* line 46
IsInternal(dep) == StartsWith(dep, MODULE_)

\* line 51: dep.split("/", 1)[0]
FirstSegment(dep) ==
    LET cut == {k \in 1..Len(dep) : dep[k] = "/"} IN
    IF cut = {} THEN dep
    ELSE SubSeq(dep, 1, (CHOOSE k \in cut : \A h \in cut : k <= h) - 1)

\* line 52: "." in first
HasDot(first) == \E k \in 1..Len(first) : first[k] = "."

\* DictAdd that assigns: d[key] = {dep}, what was there is lost.
DictAdd_Assign(d, key, dep) == (key :> {dep}) @@ d

\* DictAdd that takes dep out again when it is added a second time.
DictAdd_Toggle(d, key, dep) ==
    LET had == IF key \in DOMAIN d THEN d[key] ELSE {}
    IN  (key :> (IF dep \in had THEN had \ {dep} ELSE had \cup {dep})) @@ d

\* d[key].add(dep) on a defaultdict(set)
DictAdd(d, key, dep) ==
    (key :> ((IF key \in DOMAIN d THEN d[key] ELSE {}) \cup {dep})) @@ d

\* d.get(p, set())
DictGet(d, p) == IF p \in DOMAIN d THEN d[p] ELSE {}

\* AddDep without the test of line 47.
AddDep_NoSelfTest(m, imp_path, dep) ==
    IF IsInternal(dep)
    THEN [m EXCEPT !.internal = DictAdd(m.internal, imp_path, dep)]
    ELSE IF HasDot(FirstSegment(dep))
         THEN [m EXCEPT !.third_party = DictAdd(m.third_party, imp_path, dep)]
         ELSE [m EXCEPT !.stdlib = DictAdd(m.stdlib, imp_path, dep)]

\* AddDep with an `if` in place of the `else` of line 54: a dotted
\* dependency is added to the stdlib set as well.
AddDep_NoElse(m, imp_path, dep) ==
    IF IsInternal(dep) THEN
        IF dep # imp_path
        THEN [m EXCEPT !.internal = DictAdd(m.internal, imp_path, dep)]
        ELSE m
    ELSE IF HasDot(FirstSegment(dep))
         THEN [m EXCEPT !.third_party = DictAdd(m.third_party, imp_path, dep),
                        !.stdlib = DictAdd(m.stdlib, imp_path, dep)]
         ELSE [m EXCEPT !.stdlib = DictAdd(m.stdlib, imp_path, dep)]

\* lines 46-55: one pass of the inner loop body
AddDep(m, imp_path, dep) ==
    IF IsInternal(dep) THEN
        IF dep # imp_path
        THEN [m EXCEPT !.internal = DictAdd(m.internal, imp_path, dep)]
        ELSE m
    ELSE IF HasDot(FirstSegment(dep))
         THEN [m EXCEPT !.third_party = DictAdd(m.third_party, imp_path, dep)]
         ELSE [m EXCEPT !.stdlib = DictAdd(m.stdlib, imp_path, dep)]

\* lines 45-55: the inner loop; a dep that is not a str has no startswith.
\* The deps are taken front to back: the first half of the list, then, if
\* nothing was raised, the second half from the maps the first half left.
RECURSIVE AddDeps(_, _, _)
AddDeps(m, imp_path, deps) ==
    IF deps = <<>> THEN [ok |-> TRUE, m |-> m, type |-> ""]
    ELSE IF Len(deps) = 1
         THEN IF deps[1].k # "str" THEN [ok |-> FALSE, m |-> m, type |-> "AttributeError"]
              ELSE [ok |-> TRUE, m |-> AddDep(m, imp_path, deps[1].s), type |-> ""]
         ELSE LET half == Len(deps) \div 2
                  front == AddDeps(m, imp_path, SubSeq(deps, 1, half))
              IN  IF ~front.ok THEN front
                  ELSE AddDeps(front.m, imp_path, SubSeq(deps, half + 1, Len(deps)))

\* ProcessPkg that starts the package of the record afresh: what an earlier
\* record of the same ImportPath added is dropped.
ProcessPkg_Replace(m, pkg) ==
    IF pkg.k # "obj" THEN [ok |-> FALSE, m |-> m, type |-> "AttributeError"] ELSE
    LET imp_path == Get(pkg, ImportPathKey, JStr(<<>>)) IN
    IF imp_path.k # "str" THEN [ok |-> FALSE, m |-> m, type |-> "AttributeError"] ELSE
    IF ~InScope(imp_path.s) THEN [ok |-> TRUE, m |-> m, type |-> ""] ELSE
    LET got == Get(pkg, DepsKey, JArr(<<>>))
        deps == IF Truthy(got) THEN got ELSE JArr(<<>>)
        it == Iterate(deps)
        Drop(d) == [q \in DOMAIN d \ {imp_path.s} |-> d[q]]
        fresh == [internal |-> Drop(m.internal), stdlib |-> Drop(m.stdlib),
                  third_party |-> Drop(m.third_party)]
    IN  IF ~it.ok THEN [ok |-> FALSE, m |-> m, type |-> "TypeError"]
        ELSE AddDeps(fresh, imp_path.s, it.seq)

\* lines 41-55: the body of `for pkg in packages`
ProcessPkg(m, pkg) ==
    IF pkg.k # "obj" THEN [ok |-> FALSE, m |-> m, type |-> "AttributeError"] ELSE
    LET imp_path == Get(pkg, ImportPathKey, JStr(<<>>)) IN
    IF imp_path.k # "str" THEN [ok |-> FALSE, m |-> m, type |-> "AttributeError"] ELSE
    IF ~InScope(imp_path.s) THEN [ok |-> TRUE, m |-> m, type |-> ""] ELSE
    LET got == Get(pkg, DepsKey, JArr(<<>>))
        deps == IF Truthy(got) THEN got ELSE JArr(<<>>)
        it == Iterate(deps)
    IN  IF ~it.ok THEN [ok |-> FALSE, m |-> m, type |-> "TypeError"]
        ELSE AddDeps(m, imp_path.s, it.seq)

(***************************************************************************)
(* main: the report (lines 57-102).                                        *)
(***************************************************************************)
cap == 80

Header ==
    << <<"#"," ","D","e","p","e","n","d","e","n","c","y"," ","M","a","p"," ","(","G","e","n","e","r","a","t","e","d",")","\n">>,
       <<"\n">>,
       <<"T","h","i","s"," ","f","i","l","e"," ","i","s"," ","g","e","n","e","r","a","t","e","d","."," ","D","o"," ","n","o","t"," ","e","d","i","t"," ","b","y"," ","h","a","n","d",".","\n">>,
       <<"\n">>,
       <<"R","e","g","e","n","e","r","a","t","e"," ","w","i","t","h",":","\n">>,
       <<"\n">>,
       <<Backtick,Backtick,Backtick,"b","a","s","h","\n">>,
       <<"m","a","k","e"," ","d","e","p","s","\n">>,
       <<Backtick,Backtick,Backtick,"\n">>,
       <<"\n">> >>

NoneLine == <<"-"," ","(","n","o","n","e",")","\n">>
InternalTitle == <<"*","*","I","n","t","e","r","n","a","l"," ","d","e","p","s","*","*","\n","\n">>
ThirdPartyTitle == <<"*","*","T","h","i","r","d","-","p","a","r","t","y"," ","d","e","p","s","*","*","\n","\n">>
StdlibTitle == <<"*","*","S","t","d","l","i","b"," ","d","e","p","s","*","*","\n","\n">>

\* f"## `{p}`\n\n"
PkgTitle(p) == <<"#","#"," ",Backtick>> \o p \o <<Backtick,"\n","\n">>
\* f"- `{d}`\n"
DepLine(d) == <<"-"," ",Backtick>> \o d \o <<Backtick,"\n">>
\* f"- ... ({k} more)\n"
MoreLine(k) == <<"-"," ",".",".","."," ","(">> \o ToDec(k) \o <<" ","m","o","r","e",")","\n">>
\* f"- {k} packages\n"
CountLine(k) == <<"-"," ">> \o ToDec(k) \o <<" ","p","a","c","k","a","g","e","s","\n">>

DepLines(ds) == [k \in 1..Len(ds) |-> DepLine(ds[k])]

\* Pkgs sorted the other way round (sorted(..., reverse=True)).
RECURSIVE Reversed(_)
Reversed(seq) == IF seq = <<>> THEN <<>> ELSE Append(Reversed(Tail(seq)), Head(seq))
Pkgs_Descending(m) ==
    Reversed(sorted(DOMAIN m.internal \cup DOMAIN m.stdlib \cup DOMAIN m.third_party))

\* line 57
Pkgs(m) == sorted(DOMAIN m.internal \cup DOMAIN m.stdlib \cup DOMAIN m.third_party)

\* Section that lists the standard-library packages as it lists the others.
Section_StdlibListed(m, p) ==
    LET internal == sorted(DictGet(m.internal, p))
        stdlib == sorted(DictGet(m.stdlib, p))
        third_party == sorted(DictGet(m.third_party, p))
        shown == SubSeq(third_party, 1, IF Len(third_party) < cap THEN Len(third_party) ELSE cap)
    IN  <<PkgTitle(p), InternalTitle>>
        \o (IF internal # <<>> THEN DepLines(internal) ELSE <<NoneLine>>)
        \o << <<"\n">>, ThirdPartyTitle >>
        \o (IF third_party # <<>>
            THEN DepLines(shown)
                 \o (IF Len(third_party) > cap THEN <<MoreLine(Len(third_party) - cap)>> ELSE <<>>)
            ELSE <<NoneLine>>)
        \o << <<"\n">>, StdlibTitle >>
        \o (IF stdlib # <<>> THEN DepLines(stdlib)
            ELSE << <<"-"," ","0"," ","p","a","c","k","a","g","e","s","\n">> >>)
        \o << <<"\n">> >>

\* Section with the remainder marker already at len(third_party) == cap.
Section_MarkerAtCap(m, p) ==
    LET internal == sorted(DictGet(m.internal, p))
        stdlib == sorted(DictGet(m.stdlib, p))
        third_party == sorted(DictGet(m.third_party, p))
        shown == SubSeq(third_party, 1, IF Len(third_party) < cap THEN Len(third_party) ELSE cap)
    IN  <<PkgTitle(p), InternalTitle>>
        \o (IF internal # <<>> THEN DepLines(internal) ELSE <<NoneLine>>)
        \o << <<"\n">>, ThirdPartyTitle >>
        \o (IF third_party # <<>>
            THEN DepLines(shown)
                 \o (IF Len(third_party) >= cap THEN <<MoreLine(Len(third_party) - cap)>> ELSE <<>>)
            ELSE <<NoneLine>>)
        \o << <<"\n">>, StdlibTitle >>
        \o (IF stdlib # <<>> THEN <<CountLine(Len(stdlib))>>
            ELSE << <<"-"," ","0"," ","p","a","c","k","a","g","e","s","\n">> >>)
        \o << <<"\n">> >>

\* lines 72-102: the pieces appended for package p
Section(m, p) ==
    LET internal == sorted(DictGet(m.internal, p))
        stdlib == sorted(DictGet(m.stdlib, p))
        third_party == sorted(DictGet(m.third_party, p))
        shown == SubSeq(third_party, 1, IF Len(third_party) < cap THEN Len(third_party) ELSE cap)
    IN  <<PkgTitle(p), InternalTitle>>
        \o (IF internal # <<>> THEN DepLines(internal) ELSE <<NoneLine>>)
        \o << <<"\n">>, ThirdPartyTitle >>
        \o (IF third_party # <<>>
            THEN DepLines(shown)
                 \o (IF Len(third_party) > cap THEN <<MoreLine(Len(third_party) - cap)>> ELSE <<>>)
            ELSE <<NoneLine>>)
        \o << <<"\n">>, StdlibTitle >>
        \o (IF stdlib # <<>> THEN <<CountLine(Len(stdlib))>>
            ELSE << <<"-"," ","0"," ","p","a","c","k","a","g","e","s","\n">> >>)
        \o << <<"\n">> >>

RECURSIVE Sections(_, _)
Sections(m, pkgs) ==
    IF pkgs = <<>> THEN <<>> ELSE Section(m, Head(pkgs)) \o Sections(m, Tail(pkgs))

\* lines 57-102: the list `out` when the loop over pkgs ends
Report(m) == Header \o Sections(m, Pkgs(m))

(***************************************************************************)
(* Inputs: what go list can have written.                                  *)
(***************************************************************************)
IdA == MODULE_ \o <<"/","a">>              \* github.com/example/ktl/a
IdB == MODULE_ \o <<"/","b">>              \* github.com/example/ktl/b
IdSibling == MODULE_ \o <<"2","/","x">>    \* github.com/example/ktl2/x
IdStd == <<"f","m","t">>
IdThird == <<"g","i","t","h","u","b",".","c","o","m","/","x","/","y">>

DepIds == {IdA, IdB, IdSibling, IdStd, IdThird}

\* The text of a value, as compact JSON.
RECURSIVE Ser(_)
RECURSIVE SerItems(_, _)
SerItems(items, isObj) ==
    LET unit == IF isObj THEN 2 ELSE 1
        half == unit * ((Len(items) \div unit) \div 2)
    IN  IF items = <<>> THEN <<>>
        ELSE IF Len(items) = unit
             THEN IF isObj THEN Ser(items[1]) \o <<":">> \o Ser(items[2])
                  ELSE Ser(items[1])
             ELSE SerItems(SubSeq(items, 1, half), isObj) \o <<",">>
                  \o SerItems(SubSeq(items, half + 1, Len(items)), isObj)
Ser(v) ==
    CASE v.k = "str" -> <<"\"">> \o v.s \o <<"\"">>
      [] v.k = "arr" -> <<"[">> \o SerItems(v.items, FALSE) \o <<"]">>
      [] v.k = "obj" -> <<"{">> \o SerItems(v.items, TRUE) \o <<"}">>
      [] OTHER -> v.s

Strs(ids) == [k \in 1..Len(ids) |-> JStr(ids[k])]

\* {"ImportPath": imp, "Deps": [ids...]}
Rec(imp, ids) == JObj(<<JStr(ImportPathKey), imp, JStr(DepsKey), JArr(Strs(ids))>>)

\* Well-formed values a stream can hold.
Values ==
    { Rec(JStr(IdA), <<IdB, IdStd, IdThird>>),
      Rec(JStr(IdB), <<>>),
      JObj(<<JStr(DepsKey), JArr(Strs(<<IdStd>>))>>),
      Rec(JStr(<<>>), <<IdThird>>),
      JObj(<<JStr(<<"N","a","m","e">>), JStr(<<"a">>)>>),
      JArr(Strs(<<IdStd>>)),
      JNum(<<"1">>),
      JStr(IdStd),
      JLit(NullText) }

\* Values cut short.
Truncated ==
    { SubSeq(Ser(Rec(JStr(IdA), <<IdStd>>)), 1, Len(Ser(Rec(JStr(IdA), <<IdStd>>))) - 2),
      <<"[", "1">>,
      <<"\"", "a">> }

Whitespace == { <<" ">>, <<"\n">> }

Frags == {Ser(v) : v \in Values} \cup Truncated \cup Whitespace

(***************************************************************************)
(* The process.                                                            *)
(***************************************************************************)
NoErr == [type |-> "", msg |-> "", pos |-> -1]
Unbound == [bound |-> FALSE, v |-> <<>>]
Maps == [internal |-> internal_deps_by_pkg,
         stdlib |-> stdlib_deps_by_pkg,
         third_party |-> third_party_deps_by_pkg]

\* lines 13-20: communicate() has returned the text, the loop is about to start
Init ==
    /\ parts \in UNION {[1..k -> Frags] : k \in 0..MaxChunks}
    /\ stdout = Concat(parts)
    /\ pc = "decode"
    /\ i = 0
    /\ packages = <<>>
    /\ ends = <<>>
    /\ main_packages = Unbound
    /\ n = 0
    /\ internal_deps_by_pkg = <<>>
    /\ stdlib_deps_by_pkg = <<>>
    /\ third_party_deps_by_pkg = <<>>
    /\ out = <<>>
    /\ printed = <<>>
    /\ err = NoErr

\* SkipSpace with an `if` in place of the `while` of line 23.
SkipSpace_Once(s, k) == IF k < Len(s) /\ IsSpace(s[k + 1]) THEN k + 1 ELSE k

\* lines 23-24: the offset the whitespace loop stops at
RECURSIVE SkipSpace(_, _)
SkipSpace(s, k) == IF k < Len(s) /\ IsSpace(s[k + 1]) THEN SkipSpace(s, k + 1) ELSE k

\* DecodeValue that leaves the offset where it was (no `i = j`).
DecodeValue_NoAdvance ==
    /\ pc = "decode"
    /\ i < Len(stdout)
    /\ LET k == SkipSpace(stdout, i)
           r == raw_decode(stdout, k)
       IN  /\ k < Len(stdout)
           /\ r.ok
           /\ packages' = Append(packages, r.val)
           /\ ends' = Append(ends, r.end)
           /\ i' = i
    /\ UNCHANGED <<pc, stdout, parts, main_packages, n, internal_deps_by_pkg,
                   stdlib_deps_by_pkg, third_party_deps_by_pkg, out, printed, err>>

\* lines 21-29: one pass of the loop that decodes a value
DecodeValue ==
    /\ pc = "decode"
    /\ i < Len(stdout)
    /\ LET k == SkipSpace(stdout, i)
           r == raw_decode(stdout, k)
       IN  /\ k < Len(stdout)
           /\ r.ok
           /\ packages' = Append(packages, r.val)
           /\ ends' = Append(ends, r.end)
           /\ i' = r.end
    /\ UNCHANGED <<pc, stdout, parts, main_packages, n, internal_deps_by_pkg,
                   stdlib_deps_by_pkg, third_party_deps_by_pkg, out, printed, err>>

\* DecodeRaise with the error caught and the loop left: the values decoded
\* so far are returned.
DecodeRaise_Break ==
    /\ pc = "decode"
    /\ i < Len(stdout)
    /\ LET k == SkipSpace(stdout, i)
           r == raw_decode(stdout, k)
       IN  /\ k < Len(stdout)
           /\ ~r.ok
           /\ i' = k
    /\ main_packages' = [bound |-> TRUE, v |-> packages]
    /\ pc' = "build"
    /\ UNCHANGED <<stdout, parts, packages, ends, n, internal_deps_by_pkg,
                   stdlib_deps_by_pkg, third_party_deps_by_pkg, out, printed, err>>

\* DecodeRaise with an error that carries the offset the value starts at.
DecodeRaise_StartOffset ==
    /\ pc = "decode"
    /\ i < Len(stdout)
    /\ LET k == SkipSpace(stdout, i)
           r == raw_decode(stdout, k)
       IN  /\ k < Len(stdout)
           /\ ~r.ok
           /\ i' = k
           /\ err' = [type |-> "JSONDecodeError", msg |-> r.msg, pos |-> k]
    /\ pc' = "raised"
    /\ UNCHANGED <<stdout, parts, packages, ends, main_packages, n, internal_deps_by_pkg,
                   stdlib_deps_by_pkg, third_party_deps_by_pkg, out, printed>>

\* lines 21-27: raw_decode raises; nothing catches it in run_go_list or main
DecodeRaise ==
    /\ pc = "decode"
    /\ i < Len(stdout)
    /\ LET k == SkipSpace(stdout, i)
           r == raw_decode(stdout, k)
       IN  /\ k < Len(stdout)
           /\ ~r.ok
           /\ i' = k
           /\ err' = [type |-> "JSONDecodeError", msg |-> r.msg, pos |-> r.end]
    /\ pc' = "raised"
    /\ UNCHANGED <<stdout, parts, packages, ends, main_packages, n, internal_deps_by_pkg,
                   stdlib_deps_by_pkg, third_party_deps_by_pkg, out, printed>>

\* lines 21, 25-26, 30 and 34: the loop ends and main binds the list
DecodeReturn ==
    /\ pc = "decode"
    /\ SkipSpace(stdout, i) >= Len(stdout)
    /\ i' = SkipSpace(stdout, i)
    /\ main_packages' = [bound |-> TRUE, v |-> packages]
    /\ pc' = "build"
    /\ UNCHANGED <<stdout, parts, packages, ends, n, internal_deps_by_pkg,
                   stdlib_deps_by_pkg, third_party_deps_by_pkg, out, printed, err>>

\* lines 40-55: one pass of `for pkg in packages`
BuildPkg ==
    /\ pc = "build"
    /\ n < Len(main_packages.v)
    /\ LET r == ProcessPkg(Maps, main_packages.v[n + 1]) IN
       /\ r.ok
       /\ internal_deps_by_pkg' = r.m.internal
       /\ stdlib_deps_by_pkg' = r.m.stdlib
       /\ third_party_deps_by_pkg' = r.m.third_party
    /\ n' = n + 1
    /\ UNCHANGED <<pc, stdout, parts, i, packages, ends, main_packages, out, printed, err>>

\* lines 40-55: a pass that raises (AttributeError, TypeError); nothing catches it
BuildRaise ==
    /\ pc = "build"
    /\ n < Len(main_packages.v)
    /\ LET r == ProcessPkg(Maps, main_packages.v[n + 1]) IN
       /\ ~r.ok
       /\ internal_deps_by_pkg' = r.m.internal
       /\ stdlib_deps_by_pkg' = r.m.stdlib
       /\ third_party_deps_by_pkg' = r.m.third_party
       /\ err' = [type |-> r.type, msg |-> "", pos |-> -1]
    /\ pc' = "raised"
    /\ UNCHANGED <<stdout, parts, i, packages, ends, main_packages, n, out, printed>>

\* lines 57-102: the report is assembled in `out`
Render ==
    /\ pc = "build"
    /\ n = Len(main_packages.v)
    /\ out' = Report(Maps)
    /\ pc' = "print"
    /\ UNCHANGED <<stdout, parts, i, packages, ends, main_packages, n, internal_deps_by_pkg,
                   stdlib_deps_by_pkg, third_party_deps_by_pkg, printed, err>>

\* line 104: print("".join(out), end="")
PrintOut ==
    /\ pc = "print"
    /\ printed' = Concat(out)
    /\ pc' = "done"
    /\ UNCHANGED <<stdout, parts, i, packages, ends, main_packages, n, internal_deps_by_pkg,
                   stdlib_deps_by_pkg, third_party_deps_by_pkg, out, err>>

Next ==
    \/ DecodeValue
    \/ DecodeRaise
    \/ DecodeReturn
    \/ BuildPkg
    \/ BuildRaise
    \/ Render
    \/ PrintOut

Spec == Init /\ [][Next]_vars

\* The fragments of the streams the loop is followed on to its end: a
\* package object, a value that is not an object, a cut-off value, a space.
FragsLive == { Ser(Rec(JStr(IdA), <<IdStd>>)), <<"1">>, <<"[","1">>, <<" ">> }

\* lines 13-20, on the streams made of FragsLive
InitLive ==
    /\ parts \in UNION {[1..k -> FragsLive] : k \in 0..MaxChunks}
    /\ stdout = Concat(parts)
    /\ pc = "decode"
    /\ i = 0
    /\ packages = <<>>
    /\ ends = <<>>
    /\ main_packages = Unbound
    /\ n = 0
    /\ internal_deps_by_pkg = <<>>
    /\ stdlib_deps_by_pkg = <<>>
    /\ third_party_deps_by_pkg = <<>>
    /\ out = <<>>
    /\ printed = <<>>
    /\ err = NoErr

\* The process is one thread of sequential code: while a step is possible
\* the interpreter takes it.  For the loop of run_go_list this is written
\* without ENABLED: its passes go on for ever or the loop has been left.
DecodePass == DecodeValue \/ DecodeRaise \/ DecodeReturn

SpecLive ==
    /\ InitLive
    /\ [][Next]_vars
    /\ WF_vars(BuildPkg \/ BuildRaise \/ Render \/ PrintOut)
    /\ ([]<><<DecodePass>>_vars \/ <>[](pc # "decode"))

(***************************************************************************)
(* The same process from the point where run_go_list has returned, over    *)
(* every stream of up to MaxRecs records with up to MaxDeps Deps entries   *)
(* in all (go list writes one value per line).                             *)
(***************************************************************************)
ImpChoices == {JStr(IdA), JStr(IdSibling), JStr(IdStd)}

RECURSIVE SumTo(_, _)
SumTo(f, k) == IF k = 0 THEN 0 ELSE f[k] + SumTo(f, k - 1)

InitBuild ==
    \E cnt \in 0..MaxRecs :
    \E imps \in [1..cnt -> ImpChoices] :
    \E lens \in {f \in [1..cnt -> 0..MaxDeps] : SumTo(f, cnt) <= MaxDeps} :
    \E flat \in [1..SumTo(lens, cnt) -> DepIds] :
       LET recs == [k \in 1..cnt |->
                      Rec(imps[k], SubSeq(flat, SumTo(lens, k - 1) + 1, SumTo(lens, k)))]
           texts == [k \in 1..cnt |-> Append(Ser(recs[k]), "\n")]
           size == [k \in 1..cnt |-> Len(texts[k])]
       IN  /\ parts = texts
           /\ stdout = Concat(texts)
           /\ i = SumTo(size, cnt)
           /\ packages = recs
           /\ ends = [k \in 1..cnt |-> SumTo(size, k) - 1]
           /\ main_packages = [bound |-> TRUE, v |-> recs]
           /\ pc = "build"
           /\ n = 0
           /\ internal_deps_by_pkg = <<>>
           /\ stdlib_deps_by_pkg = <<>>
           /\ third_party_deps_by_pkg = <<>>
           /\ out = <<>>
           /\ printed = <<>>
           /\ err = NoErr

\* Every record of InitBuild is an object with a str ImportPath and a list of
\* str as Deps: lines 40-55 raise nothing on them, BuildRaise is never enabled.
NextBuild ==
    \/ BuildPkg
    \/ Render
    \/ PrintOut

SpecBuild == InitBuild /\ [][NextBuild]_vars

(***************************************************************************)
(* main from the moment run_go_list has returned one package that imports  *)
(* many third-party packages, or many packages of the module: enough of    *)
(* them to pass the cap of line 88.                                        *)
(***************************************************************************)
\* x.y/<j>: the first segment has a dot.  The text order of these paths is
\* not the order of j (x.y/10 comes before x.y/2).
ThirdId(j) == <<"x",".","y","/">> \o ToDec(j)
\* github.com/example/ktl/p<j>, a package of the module.
InternalId(j) == MODULE_ \o <<"/","p">> \o ToDec(j)
\* s<j>: no dot, no slash.
StdId(j) == <<"s">> \o ToDec(j)

\* What the package imports: third-party packages only, packages of the
\* module only, or the three kinds in turn.
DepKinds == {"third", "internal", "mixed"}

DepOfKind(kind, j) ==
    CASE kind = "third" -> ThirdId(j)
      [] kind = "internal" -> InternalId(j)
      [] OTHER -> IF j % 3 = 1 THEN InternalId(j)
                  ELSE IF j % 3 = 2 THEN ThirdId(j) ELSE StdId(j)

\* One package github.com/example/ktl/a with k imports, written in
\* ascending or descending order of their number, and after it, or not, a
\* package github.com/example/ktl/b that imports fmt.
InitCap ==
    \E k \in 0..MaxThird :
    \E descending \in BOOLEAN :
    \E kind \in DepKinds :
    \E second \in BOOLEAN :
       LET ids == [j \in 1..k |-> DepOfKind(kind, IF descending THEN k + 1 - j ELSE j)]
           recs == <<Rec(JStr(IdA), ids)>>
                   \o (IF second THEN <<Rec(JStr(IdB), <<IdStd>>)>> ELSE <<>>)
           texts == [r \in 1..Len(recs) |-> Append(Ser(recs[r]), "\n")]
           size == [r \in 1..Len(recs) |-> Len(texts[r])]
       IN  /\ parts = texts
           /\ stdout = Concat(texts)
           /\ i = SumTo(size, Len(recs))
           /\ packages = recs
           /\ ends = [r \in 1..Len(recs) |-> SumTo(size, r) - 1]
           /\ main_packages = [bound |-> TRUE, v |-> recs]
           /\ pc = "build"
           /\ n = 0
           /\ internal_deps_by_pkg = <<>>
           /\ stdlib_deps_by_pkg = <<>>
           /\ third_party_deps_by_pkg = <<>>
           /\ out = <<>>
           /\ printed = <<>>
           /\ err = NoErr

\* Every record of InitCap is an object with a str ImportPath and a list of
\* str as Deps: lines 40-55 raise nothing on them, BuildRaise is never enabled.
NextCap ==
    \/ BuildPkg
    \/ Render
    \/ PrintOut

SpecCap == InitCap /\ [][NextCap]_vars

(***************************************************************************)
(* Vocabulary of the properties.                                           *)
(***************************************************************************)
\* id is prefix itself or prefix followed by "/..." (the path-boundary rule).
AtBoundary(id, prefix) ==
    /\ id # <<>>
    /\ StartsWith(id, prefix)
    /\ \/ Len(id) = Len(prefix)
       \/ id[Len(prefix) + 1] = "/"

\* The packages that are keys of the graph.
Nodes == DOMAIN internal_deps_by_pkg \cup DOMAIN stdlib_deps_by_pkg
         \cup DOMAIN third_party_deps_by_pkg

\* The records the loop of main has consumed so far.
Processed == {main_packages.v[k] : k \in 1..n}

IsRecord(r) ==
    /\ r.k = "obj"
    /\ Get(r, ImportPathKey, JStr(<<>>)).k = "str"
    /\ Get(r, DepsKey, JArr(<<>>)).k = "arr"
    /\ \A d \in 1..Len(Get(r, DepsKey, JArr(<<>>)).items) :
          Get(r, DepsKey, JArr(<<>>)).items[d].k = "str"

RecImp(r) == Get(r, ImportPathKey, JStr(<<>>)).s
RecDeps(r) == {Get(r, DepsKey, JArr(<<>>)).items[d].s :
                  d \in 1..Len(Get(r, DepsKey, JArr(<<>>)).items)}

\* The raw dependencies the consumed records list for package p.
RawDeps(p) == UNION {RecDeps(r) : r \in {x \in Processed : IsRecord(x) /\ RecImp(x) = p}}

\* The report has a section for package p.
HasSection(p) == \E k \in 1..Len(out) : out[k] = PkgTitle(p)

BuildOver == pc \in {"print", "done"}

(***************************************************************************)
(* C1.  A record becomes a graph node, and gets a section of the report,   *)
(* only if its ImportPath is the module prefix or the module prefix        *)
(* followed by "/".  The code tests a string prefix only: a record of      *)
(* github.com/example/ktl2/x with a dependency becomes a node.             *)
(***************************************************************************)
C1_ScopeAtPathBoundary ==
    /\ \A p \in Nodes : AtBoundary(p, MODULE_)
    /\ \A r \in Processed :
          (IsRecord(r) /\ HasSection(RecImp(r))) => AtBoundary(RecImp(r), MODULE_)

(***************************************************************************)
(* C2.  A dependency is classified Internal only if it is the module       *)
(* prefix or the module prefix followed by "/"; one that only shares the   *)
(* prefix as a string is ThirdParty or StdLib by its first segment.        *)
(* The code puts github.com/example/ktl2/x into the internal set.          *)
(***************************************************************************)
C2_InternalAtPathBoundary ==
    \A p \in Nodes :
       /\ \A d \in DictGet(internal_deps_by_pkg, p) : AtBoundary(d, MODULE_)
       /\ \A d \in RawDeps(p) :
             (~AtBoundary(d, MODULE_) /\ HasDot(FirstSegment(d)))
                => d \in DictGet(third_party_deps_by_pkg, p)

(***************************************************************************)
(* C3.  Every record whose ImportPath is in scope has a node in the graph  *)
(* and a section in the report, also when its Deps is empty or holds only  *)
(* its own ImportPath.  The code creates a node only when it adds a        *)
(* dependency to one of the three maps.                                    *)
(***************************************************************************)
C3_EveryInScopeRecordIsNode ==
    BuildOver =>
       \A r \in Processed :
          (IsRecord(r) /\ AtBoundary(RecImp(r), MODULE_))
             => (RecImp(r) \in Nodes /\ HasSection(RecImp(r)))

(***************************************************************************)
(* C4.  For every node, and every in-scope package of a consumed record,   *)
(* the internal, stdlib and third-party sets are pairwise disjoint and     *)
(* their union is exactly the set of identifiers in the raw Deps lists of  *)
(* that package minus the package itself.                                  *)
(***************************************************************************)
C4_Partition ==
    \A p \in Nodes \cup {RecImp(r) : r \in {x \in Processed : IsRecord(x)}} :
       (p \in Nodes \/ AtBoundary(p, MODULE_)) =>
          LET I == DictGet(internal_deps_by_pkg, p)
              S == DictGet(stdlib_deps_by_pkg, p)
              T == DictGet(third_party_deps_by_pkg, p)
          IN  /\ I \cap S = {}
              /\ I \cap T = {}
              /\ S \cap T = {}
              /\ I \cup S \cup T = RawDeps(p) \ {p}

\* The build is over for a package that lists itself and a dotted dependency.
C4_Witness ==
    /\ pc = "done"
    /\ \E p \in Nodes :
          /\ p \in RawDeps(p)
          /\ DictGet(third_party_deps_by_pkg, p) # {}

(***************************************************************************)
(* C5.  No node is a member of its own internal, third-party or stdlib     *)
(* set, whatever the records (records with the same ImportPath included).  *)
(***************************************************************************)
C5_NoSelfEdge ==
    \A p \in Nodes :
       /\ p \notin DictGet(internal_deps_by_pkg, p)
       /\ p \notin DictGet(third_party_deps_by_pkg, p)
       /\ p \notin DictGet(stdlib_deps_by_pkg, p)

\* Two records of the same package have been consumed, the package lists
\* itself, and it is a node.
C5_Witness ==
    /\ pc = "done"
    /\ \E a, b \in 1..Len(main_packages.v) :
          /\ a # b
          /\ RecImp(main_packages.v[a]) = RecImp(main_packages.v[b])
          /\ RecImp(main_packages.v[a]) \in RecDeps(main_packages.v[a])
          /\ RecImp(main_packages.v[a]) \in Nodes

(***************************************************************************)
(* Vocabulary of the properties about the stream.                          *)
(***************************************************************************)
ValueTexts == {Ser(v) : v \in Values}
ValueOf(text) == CHOOSE v \in Values : Ser(v) = text

\* The stream is well-formed values with whitespace before, between and
\* after them, or none.
WellFormedStream == \A k \in 1..Len(parts) : parts[k] \in ValueTexts \cup Whitespace

\* The values of a well-formed stream, in order.
RECURSIVE ExpectedValues(_)
ExpectedValues(ps) ==
    IF ps = <<>> THEN <<>>
    ELSE IF Head(ps) \in Whitespace THEN ExpectedValues(Tail(ps))
    ELSE <<ValueOf(Head(ps))>> \o ExpectedValues(Tail(ps))

\* The offset just past each value of a well-formed stream that starts at
\* offset at.
RECURSIVE ExpectedEnds(_, _)
ExpectedEnds(ps, at) ==
    IF ps = <<>> THEN <<>>
    ELSE IF Head(ps) \in Whitespace THEN ExpectedEnds(Tail(ps), at + Len(Head(ps)))
    ELSE <<at + Len(Head(ps))>> \o ExpectedEnds(Tail(ps), at + Len(Head(ps)))

\* A number is directly followed by a value that begins with a digit.
DigitRun ==
    \E k \in 1..(Len(parts) - 1) :
       /\ parts[k] \in ValueTexts
       /\ ValueOf(parts[k]).k = "num"
       /\ parts[k + 1][1] \in Digits

DecodedAsWritten ==
    /\ main_packages = [bound |-> TRUE, v |-> ExpectedValues(parts)]
    /\ ends = ExpectedEnds(parts, 0)

(***************************************************************************)
(* C6 as stated.  For every buffer that is a concatenation of well-formed  *)
(* values with arbitrary whitespace (none included) around them, decoding  *)
(* succeeds and returns exactly those values in order, the offset after    *)
(* each value being just past its end.  Fails on "1" followed by "1".      *)
(***************************************************************************)
C6_Original == (WellFormedStream /\ pc # "decode") => DecodedAsWritten

(***************************************************************************)
(* C6 as amended.  The same, for buffers in which no number is directly    *)
(* followed, without whitespace, by a value that begins with a digit.      *)
(***************************************************************************)
C6_DecodeConcatenated == (WellFormedStream /\ ~DigitRun /\ pc # "decode") => DecodedAsWritten

\* Three values written back to back, the first a number, have been decoded.
C6_Witness ==
    /\ pc = "build"
    /\ Len(parts) = 3
    /\ \A k \in 1..3 : parts[k] \in ValueTexts
    /\ ValueOf(parts[1]).k = "num"
    /\ Len(main_packages.v) = 3

(***************************************************************************)
(* C7.  A value that fails to decode ends the process at once with the     *)
(* decode error: the process stops before the end of the buffer only that  *)
(* way, at a non-whitespace offset where raw_decode fails; the values      *)
(* decoded before are not returned to main, no graph is built and no       *)
(* report text, not even the header, is assembled or written.              *)
(***************************************************************************)
C7_DecodeFailureIsTerminal ==
    /\ (pc # "decode" /\ i < Len(stdout))
          => (pc = "raised" /\ err.type = "JSONDecodeError")
    /\ err.type = "JSONDecodeError"
          => /\ pc = "raised"
             /\ ~IsSpace(At(stdout, i))
             /\ ~raw_decode(stdout, i).ok
             /\ main_packages = Unbound
             /\ Nodes = {}
             /\ out = <<>>
             /\ printed = <<>>
    /\ pc = "raised" => ~ENABLED Next

\* The decode error came after values had been decoded.
C7_Witness ==
    /\ pc = "raised"
    /\ err.type = "JSONDecodeError"
    /\ packages # <<>>

\* The last piece of the stream is a value cut short, and decoding failed
\* on the value that starts where that piece starts.
TruncatedFinal ==
    /\ parts # <<>>
    /\ parts[Len(parts)] \in Truncated
    /\ pc = "raised"
    /\ err.type = "JSONDecodeError"
    /\ i = Len(stdout) - Len(parts[Len(parts)])

(***************************************************************************)
(* C8 as stated.  When the final value is truncated, the decode error      *)
(* carries the offset of the first character of that value.  Fails on an   *)
(* unterminated array or object.                                           *)
(***************************************************************************)
C8_Original == TruncatedFinal => err.pos = i

(***************************************************************************)
(* C8 as amended.  When the final value is truncated, the decode error     *)
(* carries the offset at which the decoder could not go on: at or after    *)
(* the first character of that value, at most the length of the buffer,    *)
(* and strictly after the first character for an unterminated object or    *)
(* array.                                                                  *)
(***************************************************************************)
C8_ErrorOffset ==
    TruncatedFinal =>
       /\ i <= err.pos
       /\ err.pos <= Len(stdout)
       /\ At(stdout, i) \in {"{", "["} => err.pos > i

\* Decoding failed on a truncated object that follows a decoded value.
C8_Witness ==
    /\ TruncatedFinal
    /\ At(stdout, i) = "{"
    /\ packages # <<>>

(***************************************************************************)
(* C9.  After a successful decode the process raises nothing, whatever     *)
(* the shapes of the decoded values (array, number, string, literal,       *)
(* object with other fields): such a value contributes no node and the     *)
(* report is written.  The code calls pkg.get on every value: a value      *)
(* that is not an object raises AttributeError.                            *)
(***************************************************************************)
C9_UnrecognizedShapesTolerated ==
    main_packages.bound => (pc # "raised" /\ err = NoErr)

(***************************************************************************)
(* C10.  A record whose ImportPath is absent or the empty string raises    *)
(* nothing and changes no map when the loop of main consumes it; a stream  *)
(* of such records only yields the report that is the header alone.        *)
(***************************************************************************)
HasKey(r, key) == \E k \in 1..(Len(r.items) \div 2) : r.items[2 * k - 1] = JStr(key)

Pathless(r) ==
    /\ r.k = "obj"
    /\ ~HasKey(r, ImportPathKey) \/ Get(r, ImportPathKey, JStr(<<>>)) = JStr(<<>>)

C10_PathlessSkipped ==
    /\ [][(pc = "build" /\ n < Len(main_packages.v) /\ Pathless(main_packages.v[n + 1]))
            => /\ pc' = "build"
               /\ n' = n + 1
               /\ err' = NoErr
               /\ internal_deps_by_pkg' = internal_deps_by_pkg
               /\ stdlib_deps_by_pkg' = stdlib_deps_by_pkg
               /\ third_party_deps_by_pkg' = third_party_deps_by_pkg]_vars
    /\ []((BuildOver /\ \A k \in 1..Len(main_packages.v) : Pathless(main_packages.v[k]))
            => (Nodes = {} /\ out = Header))

\* The report was written for a stream with a record without ImportPath
\* that has Deps, a record with the empty ImportPath that has Deps, and a
\* record that became a node.
C10_Witness ==
    /\ pc = "done"
    /\ Nodes # {}
    /\ \E a, b \in 1..Len(main_packages.v) :
          /\ main_packages.v[a].k = "obj" /\ main_packages.v[b].k = "obj"
          /\ ~HasKey(main_packages.v[a], ImportPathKey)
          /\ HasKey(main_packages.v[a], DepsKey)
          /\ HasKey(main_packages.v[b], ImportPathKey)
          /\ Pathless(main_packages.v[b])
          /\ HasKey(main_packages.v[b], DepsKey)

(***************************************************************************)
(* Vocabulary of the properties about the report.                          *)
(***************************************************************************)
\* A piece of out that opens a package section, and the package it names.
IsTitle(piece) == HasAt(piece, 0, <<"#","#"," ",Backtick>>)
TitleId(piece) == SubSeq(piece, 5, Len(piece) - 3)

\* The packages of the sections of the report, in the order of the report.
RECURSIVE TitleIds(_)
TitleIds(pieces) ==
    IF pieces = <<>> THEN <<>>
    ELSE IF IsTitle(Head(pieces)) THEN <<TitleId(Head(pieces))>> \o TitleIds(Tail(pieces))
    ELSE TitleIds(Tail(pieces))

SectionIds == TitleIds(out)

(***************************************************************************)
(* C11.  The package sections of the report are in strictly ascending      *)
(* lexicographic order of package identifier, so no identifier has two     *)
(* sections, whatever the order of the records in the input.               *)
(***************************************************************************)
C11_SectionsAscending ==
    \A a, b \in 1..Len(SectionIds) : a < b => LexLess(SectionIds[a], SectionIds[b])

\* The report has two sections and the input had their records in the
\* opposite order.
C11_Witness ==
    /\ pc = "done"
    /\ Len(SectionIds) = 2
    /\ Len(main_packages.v) = 2
    /\ RecImp(main_packages.v[1]) = SectionIds[2]
    /\ RecImp(main_packages.v[2]) = SectionIds[1]

\* The dependency a "- <id>" line of a section names.
LineId(piece) == SubSeq(piece, 4, Len(piece) - 2)

\* The smallest index of out after `from` whose piece is x.
IndexAfter(from, x) ==
    CHOOSE a \in (from + 1)..Len(out) :
        /\ out[a] = x
        /\ \A b \in (from + 1)..(a - 1) : out[b] # x

\* The lines of the section of p between its third-party title and the blank
\* line that closes them.
ThirdBlock(p) ==
    LET title == IndexAfter(0, PkgTitle(p))
        from == IndexAfter(title, ThirdPartyTitle)
        to == IndexAfter(from, <<"\n">>)
    IN  SubSeq(out, from + 1, to - 1)

(***************************************************************************)
(* C12.  In the section of a package whose third-party set has k entries,  *)
(* the third-party lines are the min(k, cap) smallest entries in strictly  *)
(* ascending order; a line "... (k - cap more)" follows them if and only   *)
(* if k > cap, and none does when k = cap.                                 *)
(***************************************************************************)
C12_ThirdPartyTruncation ==
    BuildOver =>
      \A p \in DOMAIN third_party_deps_by_pkg :
        LET T == third_party_deps_by_pkg[p]
            k == Cardinality(T)
            listed == IF k < cap THEN k ELSE cap
            blk == ThirdBlock(p)
        IN  IF k = 0 THEN blk = <<NoneLine>>
            ELSE /\ Len(blk) = listed + (IF k > cap THEN 1 ELSE 0)
                 /\ \A a \in 1..listed : LineId(blk[a]) \in T /\ blk[a] = DepLine(LineId(blk[a]))
                 /\ \A a \in 1..(listed - 1) : LexLess(LineId(blk[a]), LineId(blk[a + 1]))
                 /\ \A d \in T :
                      (\A a \in 1..listed : LineId(blk[a]) # d) => LexLess(LineId(blk[listed]), d)
                 /\ k > cap => blk[listed + 1] = MoreLine(k - cap)

\* 90 third-party entries: 80 lines and a marker for 10.
C12_Witness ==
    /\ pc = "done"
    /\ IdA \in DOMAIN third_party_deps_by_pkg
    /\ Cardinality(third_party_deps_by_pkg[IdA]) = 90
    /\ Len(ThirdBlock(IdA)) = 81
    /\ ThirdBlock(IdA)[81] = <<"-"," ",".",".","."," ","(","1","0"," ","m","o","r","e",")","\n">>

\* The buffer is empty or holds nothing but whitespace.
BlankInput == \A k \in 1..Len(stdout) : stdout[k] \in {" ", "\t", "\n", "\r"}

(***************************************************************************)
(* C13.  On a buffer that is empty or all whitespace the decode loop ends  *)
(* without an error and with no record, the graph has no node, and the     *)
(* report is the header block and nothing else.                            *)
(***************************************************************************)
C13_EmptyInput ==
    BlankInput =>
      /\ pc # "raised"
      /\ err = NoErr
      /\ pc = "decode" => ENABLED DecodeReturn
      /\ packages = <<>>
      /\ main_packages.bound => main_packages.v = <<>>
      /\ Nodes = {}
      /\ BuildOver => out = Header
      /\ pc = "done" => printed = Concat(Header)

\* A buffer of whitespace, not empty, has been reported.
C13_Witness ==
    /\ pc = "done"
    /\ BlankInput
    /\ Len(stdout) > 1
    /\ printed = Concat(Header)

\* The maps main has built when the loop of line 40 has run over pkgs.
RECURSIVE Built(_)
Built(pkgs) ==
    IF pkgs = <<>> THEN [internal |-> <<>>, stdlib |-> <<>>, third_party |-> <<>>]
    ELSE ProcessPkg(Built(SubSeq(pkgs, 1, Len(pkgs) - 1)), pkgs[Len(pkgs)]).m

\* A list without the second and later occurrences of its elements.
RECURSIVE Distinct(_)
Distinct(items) ==
    IF items = <<>> THEN <<>>
    ELSE LET front == Distinct(SubSeq(items, 1, Len(items) - 1))
             last == items[Len(items)]
         IN  IF \E k \in 1..Len(front) : front[k] = last THEN front ELSE Append(front, last)

\* The record r with every entry of Deps written once.
WithoutRepeats(r) ==
    JObj(<<JStr(ImportPathKey), Get(r, ImportPathKey, JStr(<<>>)),
           JStr(DepsKey), JArr(Distinct(Get(r, DepsKey, JArr(<<>>)).items))>>)

\* The pieces of the section of p: from its title to the next title.
SectionOf(p) ==
    LET title == IndexAfter(0, PkgTitle(p))
        later == {a \in (title + 1)..Len(out) : IsTitle(out[a])}
        last == IF later = {} THEN Len(out)
                ELSE (CHOOSE a \in later : \A b \in later : a <= b) - 1
    IN  SubSeq(out, title, last)

IsDepLine(piece) == HasAt(piece, 0, <<"-"," ",Backtick>>)

(***************************************************************************)
(* C14.  A dependency written several times in Deps counts once: the       *)
(* section lists no dependency twice, the standard-library line gives the  *)
(* number of distinct standard-library dependencies of the package, and    *)
(* the report is the report of the same records with every repeated entry  *)
(* of Deps removed.                                                        *)
(***************************************************************************)
C14_DuplicateDepsCountOnce ==
    pc = "done" =>
      /\ out = Report(Built([k \in 1..Len(main_packages.v) |->
                                WithoutRepeats(main_packages.v[k])]))
      /\ \A p \in Nodes :
           LET sec == SectionOf(p)
               std == {d \in RawDeps(p) : ~IsInternal(d) /\ ~HasDot(FirstSegment(d))}
           IN  /\ \A a, b \in 1..Len(sec) :
                    IsDepLine(sec[a]) /\ IsDepLine(sec[b]) /\ a # b => sec[a] # sec[b]
               /\ sec[Len(sec) - 1] = CountLine(Cardinality(std))

\* A record of github.com/example/ktl/a names fmt twice and the report
\* counts one standard-library package.
C14_Witness ==
    /\ pc = "done"
    /\ \E k \in 1..Len(main_packages.v) :
         /\ RecImp(main_packages.v[k]) = IdA
         /\ Get(main_packages.v[k], DepsKey, JArr(<<>>)).items = <<JStr(IdStd), JStr(IdStd)>>
    /\ HasSection(IdA)
    /\ SectionOf(IdA)[Len(SectionOf(IdA)) - 1] = CountLine(1)

\* The number of sections the report has for package p.
SectionCount(p) == Cardinality({k \in 1..Len(out) : out[k] = PkgTitle(p)})

(***************************************************************************)
(* C15.  Records with the same ImportPath make one node: at every point    *)
(* of the loop the three sets of a node hold the classified dependencies   *)
(* of all the records of that ImportPath consumed so far, so a later       *)
(* record removes nothing an earlier one added, and the report has         *)
(* exactly one section for the node.                                       *)
(***************************************************************************)
C15_SameImportPathMerges ==
    /\ \A p \in Nodes :
         LET raw == RawDeps(p)
             inside == {d \in raw : IsInternal(d)}
             dotted == {d \in raw \ inside : HasDot(FirstSegment(d))}
         IN  /\ DictGet(internal_deps_by_pkg, p) = inside \ {p}
             /\ DictGet(third_party_deps_by_pkg, p) = dotted
             /\ DictGet(stdlib_deps_by_pkg, p) = raw \ (inside \cup dotted)
    /\ BuildOver => \A p \in Nodes : SectionCount(p) = 1

\* Two records of github.com/example/ktl/a, one with fmt and one with
\* github.com/x/y: one section, with both.
C15_Witness ==
    /\ pc = "done"
    /\ Len(main_packages.v) = 2
    /\ RecImp(main_packages.v[1]) = IdA /\ RecDeps(main_packages.v[1]) = {IdStd}
    /\ RecImp(main_packages.v[2]) = IdA /\ RecDeps(main_packages.v[2]) = {IdThird}
    /\ DictGet(stdlib_deps_by_pkg, IdA) = {IdStd}
    /\ DictGet(third_party_deps_by_pkg, IdA) = {IdThird}
    /\ SectionCount(IdA) = 1

\* The records of pkgs whose ImportPath is the module or below it.
RECURSIVE InScopeOnly(_)
InScopeOnly(pkgs) ==
    IF pkgs = <<>> THEN <<>>
    ELSE LET front == InScopeOnly(SubSeq(pkgs, 1, Len(pkgs) - 1))
             last == pkgs[Len(pkgs)]
         IN  IF IsRecord(last) /\ AtBoundary(RecImp(last), MODULE_)
             THEN Append(front, last) ELSE front

(***************************************************************************)
(* C16.  Records whose ImportPath is not the module or below it have no    *)
(* effect: the graph and the report are those of the input without these   *)
(* records, and no such ImportPath has a section.  The code lets a record  *)
(* of github.com/example/ktl2/x through (see C1), so taking it out of the  *)
(* input changes the graph and the report.                                 *)
(***************************************************************************)
C16_OutOfScopeNoEffect ==
    BuildOver =>
      /\ Maps = Built(InScopeOnly(main_packages.v))
      /\ out = Report(Built(InScopeOnly(main_packages.v)))
      /\ \A k \in 1..Len(out) : IsTitle(out[k]) => AtBoundary(TitleId(out[k]), MODULE_)

(***************************************************************************)
(* C17.  A dependency that is not the module or below it is ThirdParty     *)
(* exactly when the text before its first "/" (all of it when it has no    *)
(* "/") has a dot, and StdLib exactly when it has none.  The code classes  *)
(* github.com/example/ktl2/x as internal (see C2), so this dependency      *)
(* with a dotted first segment is not in the third-party set.              *)
(***************************************************************************)
C17_PathShapeRule ==
    \A p \in Nodes :
       \A d \in RawDeps(p) :
          ~AtBoundary(d, MODULE_) =>
             /\ d \in DictGet(third_party_deps_by_pkg, p) <=> HasDot(FirstSegment(d))
             /\ d \in DictGet(stdlib_deps_by_pkg, p) <=> ~HasDot(FirstSegment(d))

\* The text d occurs somewhere in text.
Occurs(d, text) == \E k \in 0..(Len(text) - Len(d)) : HasAt(text, k, d)

\* The index of piece x in the section sec.
IndexIn(sec, x) == CHOOSE a \in 1..Len(sec) : sec[a] = x

(***************************************************************************)
(* C19.  The report starts with the header block and the first section     *)
(* follows it.  Every section is, in this order: its title; the internal   *)
(* title and every internal dependency of the package, one per line in     *)
(* strictly ascending order and however many there are, or the placeholder *)
(* when there is none; a blank line; the third-party title and             *)
(* third-party lines, or the placeholder when there is none; a blank       *)
(* line; the standard-library title and one line with the number of        *)
(* standard-library dependencies (0 when there is none); a blank line.     *)
(* No standard-library identifier occurs in what is printed.               *)
(***************************************************************************)
C19_SectionLayout ==
    BuildOver =>
      /\ SubSeq(out, 1, Len(Header)) = Header
      /\ \A k \in 1..Len(Header) : ~IsTitle(out[k])
      /\ Len(out) > Len(Header) => IsTitle(out[Len(Header) + 1])
      /\ \A p \in Nodes :
           LET sec == SectionOf(p)
               ints == DictGet(internal_deps_by_pkg, p)
               thirds == DictGet(third_party_deps_by_pkg, p)
               stds == DictGet(stdlib_deps_by_pkg, p)
               t == IndexIn(sec, ThirdPartyTitle)
               s == IndexIn(sec, StdlibTitle)
               intBlock == SubSeq(sec, 3, t - 2)
               thirdBlock == SubSeq(sec, t + 1, s - 2)
           IN  /\ sec[1] = PkgTitle(p)
               /\ sec[2] = InternalTitle
               /\ 3 < t /\ t + 2 < s
               /\ IF ints = {} THEN intBlock = <<NoneLine>>
                  ELSE /\ Len(intBlock) = Cardinality(ints)
                       /\ \A a \in 1..Len(intBlock) :
                             LineId(intBlock[a]) \in ints
                             /\ intBlock[a] = DepLine(LineId(intBlock[a]))
                       /\ \A a \in 1..(Len(intBlock) - 1) :
                             LexLess(LineId(intBlock[a]), LineId(intBlock[a + 1]))
               /\ sec[t - 1] = <<"\n">>
               /\ IF thirds = {} THEN thirdBlock = <<NoneLine>>
                  ELSE /\ thirdBlock # <<>>
                       /\ \A a \in 1..(Len(thirdBlock) - 1) :
                             LineId(thirdBlock[a]) \in thirds
                             /\ thirdBlock[a] = DepLine(LineId(thirdBlock[a]))
                       /\ \/ /\ LineId(thirdBlock[Len(thirdBlock)]) \in thirds
                             /\ thirdBlock[Len(thirdBlock)]
                                   = DepLine(LineId(thirdBlock[Len(thirdBlock)]))
                          \/ \E more \in 1..Cardinality(thirds) :
                                thirdBlock[Len(thirdBlock)] = MoreLine(more)
               /\ sec[s - 1] = <<"\n">>
               /\ Len(sec) = s + 2
               /\ sec[s + 1] = CountLine(Cardinality(stds))
               /\ sec[s + 2] = <<"\n">>
               /\ \A d \in stds :
                    /\ \A k \in 1..Len(out) : ~Occurs(d, out[k])
                    /\ pc = "done" => ~Occurs(d, printed)

\* github.com/example/ktl/a imports the three kinds of packages, 30 of
\* each, and github.com/example/ktl/b follows it: two sections, the first
\* with 30 internal lines, 30 third-party lines and the count 30.
C19_Witness ==
    /\ pc = "done"
    /\ SectionIds = <<IdA, IdB>>
    /\ Cardinality(DictGet(internal_deps_by_pkg, IdA)) = 30
    /\ Cardinality(DictGet(third_party_deps_by_pkg, IdA)) = 30
    /\ Cardinality(DictGet(stdlib_deps_by_pkg, IdA)) = 30
    /\ Len(SectionOf(IdA)) = 2 + 30 + 2 + 30 + 4
    /\ SectionOf(IdA)[Len(SectionOf(IdA)) - 1] = CountLine(30)

(***************************************************************************)
(* C20.  The decode loop ends on every buffer: it is left at some point;   *)
(* a pass that stays in the loop has decoded one value and moved the       *)
(* offset strictly forward, within the buffer; so the number of values     *)
(* decoded never exceeds the offset, and the offset never exceeds the      *)
(* number of characters of the buffer.                                     *)
(***************************************************************************)
C20_DecodeLoopTerminates ==
    /\ <>(pc # "decode")
    /\ [][pc = "decode" =>
             \/ pc' # "decode"
             \/ /\ i' > i
                /\ i' <= Len(stdout)
                /\ Len(packages') = Len(packages) + 1]_vars
    /\ [](Len(packages) <= i /\ i <= Len(stdout))

\* The loop has been left after three passes that decoded a value each.
C20_Witness ==
    /\ pc = "build"
    /\ n = 0
    /\ Len(packages) = 3

\* seq with its entries k and k + 1 exchanged.
Exchanged(seq, k) ==
    [j \in 1..Len(seq) |-> IF j = k THEN seq[k + 1] ELSE IF j = k + 1 THEN seq[k] ELSE seq[j]]

\* The record r with the entries k and k + 1 of its Deps exchanged.
DepsExchanged(r, k) ==
    JObj(<<JStr(ImportPathKey), Get(r, ImportPathKey, JStr(<<>>)),
           JStr(DepsKey), JArr(Exchanged(Get(r, DepsKey, JArr(<<>>)).items, k))>>)

\* The inputs one exchange away from pkgs: two neighbouring records
\* exchanged, or two neighbouring entries of the Deps of one record.
Reorderings(pkgs) ==
    {Exchanged(pkgs, k) : k \in 1..(Len(pkgs) - 1)}
    \cup UNION {{[pkgs EXCEPT ![r] = DepsExchanged(pkgs[r], k)]
                    : k \in 1..(Len(Get(pkgs[r], DepsKey, JArr(<<>>)).items) - 1)}
                : r \in 1..Len(pkgs)}

(***************************************************************************)
(* C21.  The order of the input does not matter: exchanging two            *)
(* neighbouring records, or two neighbouring entries of the Deps of a      *)
(* record, gives the same three maps and the same report, character for    *)
(* character.  Every permutation of the records and of the entries of      *)
(* their Deps is a chain of such exchanges, and every input of the chain   *)
(* is an input of the specification, so the same holds of every            *)
(* permutation.                                                            *)
(***************************************************************************)
C21_InputOrderIrrelevant ==
    pc = "done" =>
      \A q \in Reorderings(main_packages.v) :
         LET built == Built(q)
         IN  /\ built = Maps
             /\ Report(built) = out
             /\ Concat(Report(built)) = printed

\* Two records of different packages, both nodes, and the input with the
\* two exchanged is another input.
C21_Witness ==
    /\ pc = "done"
    /\ Len(main_packages.v) = 2
    /\ Cardinality(Nodes) = 2
    /\ Exchanged(main_packages.v, 1) \in Reorderings(main_packages.v)
    /\ Exchanged(main_packages.v, 1) # main_packages.v

\* The section of p shows no dependency at all: both placeholders and the
\* count 0.
EmptySection(p) ==
    SectionOf(p) = <<PkgTitle(p), InternalTitle, NoneLine, <<"\n">>,
                     ThirdPartyTitle, NoneLine, <<"\n">>,
                     StdlibTitle, CountLine(0), <<"\n">> >>

(***************************************************************************)
(* C22.  A package has a section exactly when it is the ImportPath of a    *)
(* record that is the module or below it and that lists a dependency       *)
(* other than itself; no section shows both placeholders and the count 0.  *)
(* The code lets a record of github.com/example/ktl2/x through (see C1):   *)
(* with a dependency it has a section although it is not in scope.         *)
(***************************************************************************)
C22_SectionIffInScopeWithDeps ==
    BuildOver =>
      /\ \A p \in {RecImp(r) : r \in {x \in Processed : IsRecord(x)}}
                  \cup {SectionIds[k] : k \in 1..Len(SectionIds)} :
            HasSection(p) <=>
               \E r \in Processed :
                  /\ IsRecord(r)
                  /\ RecImp(r) = p
                  /\ AtBoundary(p, MODULE_)
                  /\ RecDeps(r) \ {p} # {}
      /\ \A k \in 1..Len(SectionIds) : ~EmptySection(SectionIds[k])

====
